---- MODULE Spec2Model ----
(***************************************************************************)
(* RunwayAI: the storage layer's analytics (getFinancialSummary,           *)
(* getExpenseBreakdown) over the accounts and transactions tables, and the *)
(* operations that fill those tables.                                      *)
(*                                                                         *)
(* The operators follow DatabaseStorage (server/storage.ts), the storage   *)
(* the routes import; MockStorage (server/mock-storage.ts) computes the two *)
(* analytics results with the same statements over its in-memory arrays.   *)
(*                                                                         *)
(* Numbers.  Stored decimals ("45000.00", "-2847.00") are kept as the      *)
(* literal's parts, a sign and a magnitude in whole currency units;        *)
(* parseFloat turns a literal into a number.  Sums and differences are     *)
(* integers.  A quotient is kept exactly, as a normalised fraction <<n,d>>,*)
(* with <<1,0>>, <<-1,0>> and <<0,0>> standing for JavaScript's Infinity,  *)
(* -Infinity and NaN; binary floating-point rounding is not modelled.      *)
(*                                                                         *)
(* Handlers.  A route handler that awaits between its reads and writes    *)
(* (the account sync; DatabaseStorage.getFinancialSummary with its two     *)
(* queries) is one action per awaited statement, its locals kept in        *)
(* requests; the other handlers are one action each.  MockStorage's        *)
(* createAccount, createTransaction and deleteAccount are actions of their *)
(* own, since they differ from the tables' foreign keys and cascade.       *)
(*                                                                         *)
(* Time.  A Date is a count of ticks; a day has TicksPerDay ticks, tick 0  *)
(* of a day being 00:00:00.000, and a month has DaysPerMonth days.         *)
(***************************************************************************)
EXTENDS Integers, Sequences, FiniteSets, TLC

VARIABLES accounts, transactions, nextAccountId, nextTransactionId, now, resp,
          companies, budgets, requests, users, initialized

vars == <<accounts, transactions, nextAccountId, nextTransactionId, now, resp,
          companies, budgets, requests, users, initialized>>

(* ------------------------------ bounds -------------------------------- *)
MaxAccounts == 2
MaxTransactions == 3
DaysPerMonth == 2
TicksPerDay == 2
MaxTicks == 3
MaxCompanies == 1
MaxBudgets == 1
MaxUsers == 2

(* ----------------------------- constants ------------------------------ *)
\* the "not burning cash" runway value
RunwaySentinel == 999

\* JavaScript null (a column that is NULL); no stored text equals it
NULL == "<null>"

Users == {"u1", "u2"}

(* ------------------------- JavaScript numbers ------------------------- *)
Math_abs(x) == IF x < 0 THEN 0 - x ELSE x

Sign(x) == IF x > 0 THEN 1 ELSE IF x < 0 THEN 0 - 1 ELSE 0

RECURSIVE GCD(_, _)
GCD(a, b) == IF b = 0 THEN a ELSE GCD(b, a % b)

\* an integer as a number
Num(n) == <<n, 1>>

\* n / d as JavaScript divides: exact, or Infinity, -Infinity, NaN for d = 0
Div(n, d) ==
    IF d = 0 THEN <<Sign(n), 0>>
    ELSE LET g == GCD(Math_abs(n), Math_abs(d))
             s == Sign(d)
         IN  <<(s * n) \div g, (s * d) \div g>>

\* a decimal literal: its sign and its digits
Dec(neg, mag) == [neg |-> neg, mag |-> mag]

parseFloat(s) == IF s.neg THEN 0 - s.mag ELSE s.mag

(* ------------------------------- dates -------------------------------- *)
\* new Date(year, month, day): the first tick of that day; day 0 is the last
\* day of the month before.  The argument month counts months from month 0 of
\* year 0 (it is year * 12 + month).
DateOf(month, day) == ((month * DaysPerMonth) + (day - 1)) * TicksPerDay

\* (getFullYear(), getMonth()) of a date, as one month count
getMonth(date) == date \div (DaysPerMonth * TicksPerDay)

startOfMonth(at) == DateOf(getMonth(at), 1)

endOfMonth(at) == DateOf(getMonth(at) + 1, 0)

(* --------------------------- Array.reduce ----------------------------- *)
\* array.reduce((sum, x) => sum + x, initial), for an array of numbers
RECURSIVE reduce(_, _)
reduce(array, initial) ==
    IF array = <<>> THEN initial
    ELSE reduce(Tail(array), initial + Head(array))

(* ------------------------ getFinancialSummary ------------------------- *)
\* faulty variant: only the active accounts of the user
accountsData_active(accts, userId) ==
    SelectSeq(accts, LAMBDA a : a.userId = userId /\ a.isActive)

\* select() from(accounts) where(eq(accounts.userId, userId))
accountsData(accts, userId) == SelectSeq(accts, LAMBDA a : a.userId = userId)

\* reduce((sum, account) => sum + parseFloat(account.balance || "0"), 0); the
\* balance column is NOT NULL, so the `|| "0"` never applies
totalBalance(accountsOfUser) ==
    reduce([i \in DOMAIN accountsOfUser |-> parseFloat(accountsOfUser[i].balance)], 0)

\* faulty variant: the month's transactions of every user
monthlyTransactions_anyUser(txs, userId, at) ==
    SelectSeq(txs, LAMBDA t : /\ t.date >= startOfMonth(at)
                              /\ t.date <= endOfMonth(at))

\* where(and(eq(userId), gte(date, startOfMonth), lte(date, endOfMonth)))
monthlyTransactions(txs, userId, at) ==
    SelectSeq(txs, LAMBDA t : /\ t.userId = userId
                              /\ t.date >= startOfMonth(at)
                              /\ t.date <= endOfMonth(at))

\* faulty variant: expenses summed with their stored sign
monthlyExpenses_signed(monthly) ==
    LET expenses == SelectSeq(monthly, LAMBDA t : t.type = "expense")
    IN  reduce([i \in DOMAIN expenses |-> parseFloat(expenses[i].amount)], 0)

monthlyExpenses(monthly) ==
    LET expenses == SelectSeq(monthly, LAMBDA t : t.type = "expense")
    IN  reduce([i \in DOMAIN expenses |-> Math_abs(parseFloat(expenses[i].amount))], 0)

\* faulty variant: whatever is not an expense is revenue
monthlyRevenue_notExpense(monthly) ==
    LET incomes == SelectSeq(monthly, LAMBDA t : t.type # "expense")
    IN  reduce([i \in DOMAIN incomes |-> parseFloat(incomes[i].amount)], 0)

monthlyRevenue(monthly) ==
    LET incomes == SelectSeq(monthly, LAMBDA t : t.type = "income")
    IN  reduce([i \in DOMAIN incomes |-> parseFloat(incomes[i].amount)], 0)

monthlyBurn(expenses, revenue) == expenses - revenue

\* faulty variant: a burn of exactly 0 divides
runwayMonths_ge(balance, burn) ==
    IF burn >= 0 THEN Div(balance, burn) ELSE Num(RunwaySentinel)

\* faulty variant: a negative burn divides too
runwayMonths_nonzero(balance, burn) ==
    IF burn # 0 THEN Div(balance, burn) ELSE Num(RunwaySentinel)

runwayMonths(balance, burn) ==
    IF burn > 0 THEN Div(balance, burn) ELSE Num(RunwaySentinel)

getFinancialSummary(accts, txs, at, userId) ==
    LET balance  == totalBalance(accountsData(accts, userId))
        monthly  == monthlyTransactions(txs, userId, at)
        expenses == monthlyExpenses(monthly)
        revenue  == monthlyRevenue(monthly)
        burn     == monthlyBurn(expenses, revenue)
    IN  [totalBalance   |-> balance,
         monthlyBurn    |-> burn,
         monthlyRevenue |-> revenue,
         runwayMonths   |-> runwayMonths(balance, burn)]

(* ------------------------ getExpenseBreakdown ------------------------- *)
\* A value held by the accumulator object: a number, or the string that
\* JavaScript's + makes when an operand is not a number (its text is not kept).
Number(n) == [t |-> "number", n |-> n]
String == [t |-> "string", n |-> 0]
Object == [t |-> "object", n |-> 0]

\* The property names every object literal {} inherits from Object.prototype.
ObjectPrototype ==
    {"constructor", "toString", "valueOf", "hasOwnProperty", "__proto__"}

\* faulty variant: the month's transactions of the user, of every type
expenseTransactions_anyType(txs, userId, at) ==
    SelectSeq(txs, LAMBDA t : /\ t.userId = userId
                              /\ t.date >= startOfMonth(at)
                              /\ t.date <= endOfMonth(at))

\* where(and(eq(userId), eq(type, 'expense'), gte(date, ..), lte(date, ..)))
expenseTransactions(txs, userId, at) ==
    SelectSeq(txs, LAMBDA t : /\ t.userId = userId
                              /\ t.type = "expense"
                              /\ t.date >= startOfMonth(at)
                              /\ t.date <= endOfMonth(at))

\* transaction.category || 'Uncategorized': null and "" are falsy
categoryOf(transaction) ==
    IF transaction.category \in {NULL, ""} THEN "Uncategorized"
    ELSE transaction.category

hasOwnProperty(acc, key) == \E i \in DOMAIN acc : acc[i].category = key

\* acc[key]: the own property, else the inherited one, else undefined; then
\* `|| 0` replaces undefined (and a number 0) by 0
getOrZero(acc, key) ==
    IF hasOwnProperty(acc, key)
    THEN acc[CHOOSE i \in DOMAIN acc : acc[i].category = key].amount
    ELSE IF key \in ObjectPrototype THEN Object
    ELSE Number(0)

\* a + b: the sum of two numbers, a string otherwise
Plus(a, b) ==
    IF a.t = "number" /\ b.t = "number" THEN Number(a.n + b.n) ELSE String

\* acc[key] = value; an object's keys keep their insertion order.  Assigning
\* a primitive to __proto__ runs the inherited setter, which ignores it.
setProperty(acc, key, value) ==
    IF key = "__proto__" THEN acc
    ELSE IF hasOwnProperty(acc, key)
    THEN [i \in DOMAIN acc |->
            IF acc[i].category = key
            THEN [category |-> key, amount |-> value] ELSE acc[i]]
    ELSE Append(acc, [category |-> key, amount |-> value])

\* one step of the reduce: acc[category] = (acc[category] || 0) + amount
addToCategory(acc, transaction) ==
    setProperty(acc, categoryOf(transaction),
                Plus(getOrZero(acc, categoryOf(transaction)),
                     Number(Math_abs(parseFloat(transaction.amount)))))

RECURSIVE reduceCategories(_, _)
reduceCategories(expenses, acc) ==
    IF expenses = <<>> THEN acc
    ELSE reduceCategories(Tail(expenses), addToCategory(acc, Head(expenses)))

categoryTotals(expenses) == reduceCategories(expenses, <<>>)

\* Object.values(categoryTotals).reduce((sum, amount) => sum + amount, 0)
RECURSIVE reduceValues(_, _)
reduceValues(totals, sum) ==
    IF totals = <<>> THEN sum
    ELSE reduceValues(Tail(totals), Plus(sum, Head(totals).amount))

totalExpenses(totals) == reduceValues(totals, Number(0))

\* faulty variant: the share as a fraction, not multiplied by 100
percentage_fraction(amount, total) ==
    IF total.t = "number" /\ total.n > 0
    THEN Div(amount.n, total.n)
    ELSE Num(0)

\* totalExpenses > 0 ? (amount / totalExpenses) * 100 : 0; a string that is
\* no numeral compares as NaN, so the test is false for it
percentage(amount, total) ==
    IF total.t = "number" /\ total.n > 0
    THEN Div(amount.n * 100, total.n)
    ELSE Num(0)

getExpenseBreakdown(txs, at, userId) ==
    LET totals == categoryTotals(expenseTransactions(txs, userId, at))
        total  == totalExpenses(totals)
    IN  [i \in DOMAIN totals |->
            [category   |-> totals[i].category,
             amount     |-> totals[i].amount,
             percentage |-> percentage(totals[i].amount, total)]]

(* ------------------------------ storage ------------------------------- *)
NoResponse == [op |-> "none", userId |-> NULL, at |-> 0, body |-> <<>>]

\* the handlers that can be in flight at once, and a handler that is not
Requests == {"r1", "r2"}

Idle == [pc |-> "idle"]

\* The clock at start-up: the first tick of the second day of month 1.
StartOfClock == DateOf(1, 2)

Init ==
    /\ accounts = <<>>
    /\ transactions = <<>>
    /\ nextAccountId = 1
    /\ nextTransactionId = 1
    /\ now = StartOfClock
    /\ resp = NoResponse
    /\ companies = <<>>
    /\ budgets = <<>>
    /\ requests = [r \in Requests |-> Idle]
    /\ users = <<>>
    /\ initialized = FALSE

\* insert(accounts).values(account).returning()
createAccount(account) ==
    /\ nextAccountId <= MaxAccounts
    /\ account.userId \in Users
    /\ LET newAccount == [id       |-> nextAccountId,
                          userId   |-> account.userId,
                          type     |-> account.type,
                          balance  |-> account.balance,
                          isActive |-> account.isActive]
       IN  /\ accounts' = Append(accounts, newAccount)
           /\ resp' = [op |-> "createAccount", userId |-> account.userId,
                       at |-> now, body |-> newAccount]
    /\ nextAccountId' = nextAccountId + 1
    /\ UNCHANGED <<transactions, nextTransactionId, now, companies, budgets, requests,
                   users, initialized>>

\* insert(transactions).values(transaction).returning(); account_id and
\* user_id are foreign keys
createTransaction(transaction) ==
    /\ nextTransactionId <= MaxTransactions
    /\ transaction.userId \in Users
    /\ \E i \in DOMAIN accounts : accounts[i].id = transaction.accountId
    /\ LET newTransaction == [id        |-> nextTransactionId,
                              accountId |-> transaction.accountId,
                              userId    |-> transaction.userId,
                              amount    |-> transaction.amount,
                              category  |-> transaction.category,
                              date      |-> transaction.date,
                              type      |-> transaction.type]
       IN  /\ transactions' = Append(transactions, newTransaction)
           /\ resp' = [op |-> "createTransaction", userId |-> transaction.userId,
                       at |-> now, body |-> newTransaction]
    /\ nextTransactionId' = nextTransactionId + 1
    /\ UNCHANGED <<accounts, nextAccountId, now, companies, budgets, requests,
                   users, initialized>>

\* faulty variant: the aggregation reorders the stored array it reads
\* (an in-place reverse() on this.transactions instead of filter())
FinancialSummaryRoute_inPlace(user) ==
    /\ resp' = [op |-> "getFinancialSummary", userId |-> user, at |-> now,
                body |-> getFinancialSummary(accounts, transactions, now, user)]
    /\ transactions' = [i \in DOMAIN transactions |->
                            transactions[Len(transactions) + 1 - i]]
    /\ UNCHANGED <<accounts, nextAccountId, nextTransactionId, now,
                   companies, budgets, requests,
                   users, initialized>>

\* GET /api/financial-summary
FinancialSummaryRoute(user) ==
    /\ resp' = [op |-> "getFinancialSummary", userId |-> user, at |-> now,
                body |-> getFinancialSummary(accounts, transactions, now, user)]
    /\ UNCHANGED <<accounts, transactions, nextAccountId, nextTransactionId, now,
                   companies, budgets, requests,
                   users, initialized>>

\* GET /api/expense-breakdown
ExpenseBreakdownRoute(user) ==
    /\ resp' = [op |-> "getExpenseBreakdown", userId |-> user, at |-> now,
                body |-> getExpenseBreakdown(transactions, now, user)]
    /\ UNCHANGED <<accounts, transactions, nextAccountId, nextTransactionId, now,
                   companies, budgets, requests,
                   users, initialized>>

\* time passes: the next `new Date()` is one tick later
Tick ==
    /\ now < StartOfClock + MaxTicks
    /\ now' = now + 1
    /\ UNCHANGED <<accounts, transactions, nextAccountId, nextTransactionId, resp,
                   companies, budgets, requests,
                   users, initialized>>

(* ------------------- POST /api/accounts/:id/sync ---------------------- *)
\* Number.prototype.toString, for the integers the model's sums are
toString(n) == Dec(n < 0, Math_abs(n))

\* const [account] = select().from(accounts).where(eq(accounts.id, id)): the
\* rows found, none or one
getAccount(accts, id) == SelectSeq(accts, LAMBDA a : a.id = id)

\* { ...row, ...updates }: the columns named in updates take its values
set(row, updates) ==
    [column \in DOMAIN row |->
        IF column \in DOMAIN updates THEN updates[column] ELSE row[column]]

\* update(accounts).set(account).where(eq(accounts.id, id)); no row, no change
updateAccount(accts, id, updates) ==
    [i \in DOMAIN accts |->
        IF accts[i].id = id THEN set(accts[i], updates) ELSE accts[i]]

\* generateNewTransactions: amount is `-${amount}` for an expense template,
\* date is now minus the hours drawn
generateNewTransactions(accountId, userId, templates, at) ==
    [i \in DOMAIN templates |->
        [accountId |-> accountId,
         userId    |-> userId,
         amount    |-> Dec(templates[i].type = "expense", templates[i].amount),
         category  |-> templates[i].category,
         date      |-> at - templates[i].hoursAgo,
         type      |-> templates[i].type]]

\* faulty variant: every added transaction raises the balance
balanceChange_unsigned(addedTransactions) ==
    reduce([i \in DOMAIN addedTransactions |->
                Math_abs(parseFloat(addedTransactions[i].amount))], 0)

\* addedTransactions.reduce((sum, tx) => sum + (tx.type === 'income' ?
\* amount : -Math.abs(amount)), 0)
balanceChange(addedTransactions) ==
    reduce([i \in DOMAIN addedTransactions |->
                LET amount == parseFloat(addedTransactions[i].amount)
                IN  IF addedTransactions[i].type = "income" THEN amount
                    ELSE 0 - Math_abs(amount)], 0)

\* (parseFloat(account.balance) + balanceChange).toString()
newBalance(account, change) == toString(parseFloat(account.balance) + change)

\* transactions the handlers in flight have yet to create
RECURSIVE Outstanding(_)
Outstanding(rs) ==
    IF rs = {} THEN 0
    ELSE LET r == CHOOSE x \in rs : TRUE
         IN  (IF requests[r].pc = "sync" THEN Len(requests[r].newTransactions)
              ELSE 0) + Outstanding(rs \ {r})

NotFound(user, accountId) ==
    [op |-> "sync", userId |-> user, at |-> now, status |-> 404,
     accountId |-> accountId, body |-> [message |-> "Account not found"]]

\* faulty variant: the handler does not compare the account's owner
SyncGetAccount_anyOwner(r, user, accountId, templates) ==
    LET account == getAccount(accounts, accountId)
    IN  /\ requests[r].pc = "idle"
        /\ IF account = <<>>
           THEN /\ resp' = NotFound(user, accountId)
                /\ UNCHANGED requests
           ELSE /\ (nextTransactionId - 1) + Outstanding(Requests) + Len(templates)
                      <= MaxTransactions
                /\ requests' = [requests EXCEPT ![r] =
                      [pc |-> "sync", user |-> user, accountId |-> accountId,
                       account |-> account[1],
                       newTransactions |->
                           generateNewTransactions(accountId, user, templates, now),
                       addedTransactions |-> <<>>]]
                /\ UNCHANGED resp
        /\ UNCHANGED <<accounts, transactions, nextAccountId, nextTransactionId,
                       now, companies, budgets,
                       users, initialized>>

\* the handler up to its first write: getAccount, the 404 answer, and the
\* transactions drawn for the account
SyncGetAccount(r, user, accountId, templates) ==
    LET account == getAccount(accounts, accountId)
    IN  /\ requests[r].pc = "idle"
        /\ IF account = <<>> \/ account[1].userId # user
           THEN /\ resp' = NotFound(user, accountId)
                /\ UNCHANGED requests
           ELSE /\ (nextTransactionId - 1) + Outstanding(Requests) + Len(templates)
                      <= MaxTransactions
                /\ requests' = [requests EXCEPT ![r] =
                      [pc |-> "sync", user |-> user, accountId |-> accountId,
                       account |-> account[1],
                       newTransactions |->
                           generateNewTransactions(accountId, user, templates, now),
                       addedTransactions |-> <<>>]]
                /\ UNCHANGED resp
        /\ UNCHANGED <<accounts, transactions, nextAccountId, nextTransactionId,
                       now, companies, budgets,
                       users, initialized>>

\* one turn of the loop: await storage.createTransaction(tx); an insert the
\* foreign key rejects throws and is skipped
SyncCreateTransaction(r) ==
    /\ requests[r].pc = "sync"
    /\ requests[r].newTransactions # <<>>
    /\ LET tx == Head(requests[r].newTransactions)
           created == [id        |-> nextTransactionId,
                       accountId |-> tx.accountId,
                       userId    |-> tx.userId,
                       amount    |-> tx.amount,
                       category  |-> tx.category,
                       date      |-> tx.date,
                       type      |-> tx.type]
       IN  IF getAccount(accounts, tx.accountId) # <<>>
           THEN /\ nextTransactionId <= MaxTransactions
                /\ transactions' = Append(transactions, created)
                /\ nextTransactionId' = nextTransactionId + 1
                /\ requests' = [requests EXCEPT
                      ![r].newTransactions = Tail(@),
                      ![r].addedTransactions = Append(@, created)]
           ELSE /\ requests' = [requests EXCEPT ![r].newTransactions = Tail(@)]
                /\ UNCHANGED <<transactions, nextTransactionId>>
    /\ UNCHANGED <<accounts, nextAccountId, now, resp, companies, budgets,
                   users, initialized>>

\* after the loop: the balance read at the start plus the change is written
\* and answered
SyncUpdateAccount(r) ==
    /\ requests[r].pc = "sync"
    /\ requests[r].newTransactions = <<>>
    /\ LET added  == requests[r].addedTransactions
           change == balanceChange(added)
           stored == newBalance(requests[r].account, change)
       IN  /\ accounts' = updateAccount(accounts, requests[r].accountId,
                                        [balance |-> stored])
           /\ resp' = [op |-> "sync", userId |-> requests[r].user, at |-> now,
                       status |-> 200, accountId |-> requests[r].accountId,
                       body |-> [newTransactions |-> Len(added),
                                 balanceChange   |-> change,
                                 newBalance      |-> parseFloat(stored)]]
    /\ requests' = [requests EXCEPT ![r] = Idle]
    /\ UNCHANGED <<transactions, nextAccountId, nextTransactionId, now,
                   companies, budgets,
                   users, initialized>>

\* getFinancialSummary, first query: the user's accounts
SummarySelectAccounts(r, user) ==
    /\ requests[r].pc = "idle"
    /\ requests' = [requests EXCEPT ![r] =
          [pc |-> "summary", user |-> user,
           accountsData |-> accountsData(accounts, user)]]
    /\ UNCHANGED <<accounts, transactions, nextAccountId, nextTransactionId,
                   now, resp, companies, budgets,
                   users, initialized>>

\* getFinancialSummary, second query: the month's transactions; the result
\* is answered
SummarySelectTransactions(r) ==
    /\ requests[r].pc = "summary"
    /\ resp' = [op |-> "getFinancialSummary", userId |-> requests[r].user,
                at |-> now,
                body |-> getFinancialSummary(requests[r].accountsData,
                                             transactions, now, requests[r].user)]
    /\ requests' = [requests EXCEPT ![r] = Idle]
    /\ UNCHANGED <<accounts, transactions, nextAccountId, nextTransactionId,
                   now, companies, budgets,
                   users, initialized>>

\* DELETE /api/accounts/:id: delete(accounts).where(eq(accounts.id, id)); the
\* transactions' foreign key is ON DELETE CASCADE
DeleteAccountRoute(user, id) ==
    /\ accounts' = SelectSeq(accounts, LAMBDA a : a.id # id)
    /\ transactions' = SelectSeq(transactions, LAMBDA t : t.accountId # id)
    /\ resp' = [op |-> "DELETE /api/accounts/:id", userId |-> user, at |-> now,
                status |-> 200, accountId |-> id,
                body |-> [message |-> "Account deleted successfully"]]
    /\ UNCHANGED <<nextAccountId, nextTransactionId, now, companies, budgets,
                   requests,
                   users, initialized>>

(* ------------------------------- routes ------------------------------- *)
\* { ...a, ...b }
spread(a, b) ==
    [key \in DOMAIN a \cup DOMAIN b |-> IF key \in DOMAIN b THEN b[key] ELSE a[key]]

Failed(op, user, message) ==
    [op |-> op, userId |-> user, at |-> now, status |-> 400,
     body |-> [message |-> message]]

\* POST /api/company
PostCompanyRoute(user, body) ==
    /\ Len(companies) < MaxCompanies
    /\ LET companyData == spread(body, [userId |-> user])
           company == [id     |-> Len(companies) + 1,
                       userId |-> companyData.userId,
                       name   |-> companyData.name]
       IN  /\ companies' = Append(companies, company)
           /\ resp' = [op |-> "POST /api/company", userId |-> user, at |-> now,
                       status |-> 200, body |-> company]
    /\ UNCHANGED <<accounts, transactions, nextAccountId, nextTransactionId, now,
                   budgets, requests,
                   users, initialized>>

\* POST /api/budgets
PostBudgetsRoute(user, body) ==
    /\ Len(budgets) < MaxBudgets
    /\ LET budgetData == spread(body, [userId |-> user])
           budget == [id       |-> Len(budgets) + 1,
                      userId   |-> budgetData.userId,
                      category |-> budgetData.category]
       IN  /\ budgets' = Append(budgets, budget)
           /\ resp' = [op |-> "POST /api/budgets", userId |-> user, at |-> now,
                       status |-> 200, body |-> budget]
    /\ UNCHANGED <<accounts, transactions, nextAccountId, nextTransactionId, now,
                   companies, requests,
                   users, initialized>>

\* POST /api/accounts
PostAccountsRoute(user, body) ==
    /\ nextAccountId <= MaxAccounts
    /\ LET accountData == spread(body, [userId |-> user])
           account == [id       |-> nextAccountId,
                       userId   |-> accountData.userId,
                       type     |-> accountData.type,
                       balance  |-> accountData.balance,
                       isActive |-> accountData.isActive]
       IN  /\ accounts' = Append(accounts, account)
           /\ resp' = [op |-> "POST /api/accounts", userId |-> user, at |-> now,
                       status |-> 200, body |-> account]
    /\ nextAccountId' = nextAccountId + 1
    /\ UNCHANGED <<transactions, nextTransactionId, now, companies, budgets, requests,
                   users, initialized>>

\* PUT /api/accounts/:id: updates = req.body, storage.updateAccount(id, updates)
PutAccountRoute(user, id, updates) ==
    /\ accounts' = updateAccount(accounts, id, updates)
    /\ resp' = [op |-> "PUT /api/accounts/:id", userId |-> user, at |-> now,
                status |-> 200, body |-> getAccount(accounts', id)]
    /\ UNCHANGED <<transactions, nextAccountId, nextTransactionId, now,
                   companies, budgets, requests,
                   users, initialized>>

\* the row Postgres stores for the parsed body; account_id is a foreign key
inserted(transactionData) ==
    [id        |-> nextTransactionId,
     accountId |-> transactionData.accountId,
     userId    |-> transactionData.userId,
     amount    |-> transactionData.amount,
     category  |-> transactionData.category,
     date      |-> transactionData.date,
     type      |-> transactionData.type]

\* faulty variant: the body is spread after userId, so its userId wins
PostTransactionsRoute_bodyLast(user, body) ==
    /\ nextTransactionId <= MaxTransactions
    /\ LET transactionData == spread([userId |-> user], body)
       IN  IF getAccount(accounts, transactionData.accountId) # <<>>
           THEN /\ transactions' = Append(transactions, inserted(transactionData))
                /\ nextTransactionId' = nextTransactionId + 1
                /\ resp' = [op |-> "POST /api/transactions", userId |-> user,
                            at |-> now, status |-> 200,
                            body |-> inserted(transactionData)]
           ELSE /\ resp' = Failed("POST /api/transactions", user,
                                  "Failed to create transaction")
                /\ UNCHANGED <<transactions, nextTransactionId>>
    /\ UNCHANGED <<accounts, nextAccountId, now, companies, budgets, requests,
                   users, initialized>>

\* faulty variant: the new transaction's amount is applied to its account
PostTransactionsRoute_balance(user, body) ==
    /\ nextTransactionId <= MaxTransactions
    /\ LET transactionData == spread(body, [userId |-> user])
           account == getAccount(accounts, transactionData.accountId)
       IN  IF account # <<>>
           THEN /\ transactions' = Append(transactions, inserted(transactionData))
                /\ nextTransactionId' = nextTransactionId + 1
                /\ accounts' = updateAccount(accounts, transactionData.accountId,
                      [balance |-> newBalance(account[1],
                                      balanceChange(<<transactionData>>))])
                /\ resp' = [op |-> "POST /api/transactions", userId |-> user,
                            at |-> now, status |-> 200,
                            body |-> inserted(transactionData)]
           ELSE /\ resp' = Failed("POST /api/transactions", user,
                                  "Failed to create transaction")
                /\ UNCHANGED <<accounts, transactions, nextTransactionId>>
    /\ UNCHANGED <<nextAccountId, now, companies, budgets, requests,
                   users, initialized>>

\* POST /api/transactions
PostTransactionsRoute(user, body) ==
    /\ nextTransactionId <= MaxTransactions
    /\ LET transactionData == spread(body, [userId |-> user])
       IN  IF getAccount(accounts, transactionData.accountId) # <<>>
           THEN /\ transactions' = Append(transactions, inserted(transactionData))
                /\ nextTransactionId' = nextTransactionId + 1
                /\ resp' = [op |-> "POST /api/transactions", userId |-> user,
                            at |-> now, status |-> 200,
                            body |-> inserted(transactionData)]
           ELSE /\ resp' = Failed("POST /api/transactions", user,
                                  "Failed to create transaction")
                /\ UNCHANGED <<transactions, nextTransactionId>>
    /\ UNCHANGED <<accounts, nextAccountId, now, companies, budgets, requests,
                   users, initialized>>

\* update(transactions).set(transaction).where(eq(transactions.id, id))
updateTransaction(txs, id, updates) ==
    [i \in DOMAIN txs |-> IF txs[i].id = id THEN set(txs[i], updates) ELSE txs[i]]

\* PUT /api/transactions/:id: updates = req.body; an account_id that is not
\* stored is rejected by the foreign key
PutTransactionRoute(user, id, updates) ==
    /\ IF "accountId" \in DOMAIN updates
          /\ getAccount(accounts, updates.accountId) = <<>>
          /\ \E i \in DOMAIN transactions : transactions[i].id = id
       THEN /\ resp' = Failed("PUT /api/transactions/:id", user,
                              "Failed to update transaction")
            /\ UNCHANGED transactions
       ELSE /\ transactions' = updateTransaction(transactions, id, updates)
            /\ resp' = [op |-> "PUT /api/transactions/:id", userId |-> user,
                        at |-> now, status |-> 200,
                        body |-> SelectSeq(transactions', LAMBDA t : t.id = id)]
    /\ UNCHANGED <<accounts, nextAccountId, nextTransactionId, now,
                   companies, budgets, requests,
                   users, initialized>>

\* storage.bulkUpdateTransactions(ids, updates): one update per id
bulkUpdateTransactions(ids, updates) ==
    /\ transactions' = [i \in DOMAIN transactions |->
          IF \E k \in DOMAIN ids : ids[k] = transactions[i].id
          THEN set(transactions[i], updates) ELSE transactions[i]]
    /\ resp' = [op |-> "bulkUpdateTransactions", userId |-> NULL, at |-> now,
                status |-> 200,
                body |-> SelectSeq(transactions',
                            LAMBDA t : \E k \in DOMAIN ids : ids[k] = t.id)]
    /\ UNCHANGED <<accounts, nextAccountId, nextTransactionId, now,
                   companies, budgets, requests,
                   users, initialized>>

(* ------------------------- PUT /api/transactions/… -------------------- *)
\* the last segment of the request path: a transaction id, or the literal
\* "bulk", numbered 0, which is the id of no transaction
bulk == 0

\* the PUT routes under /api/transactions/ in the order app.put registers them
PutTransactionsRoutes == <<":id", "bulk">>

\* a route parameter matches any one segment, a literal only itself
matches(pattern, segment) == pattern = ":id" \/ segment = bulk

\* the first registered route that matches handles the request
dispatch(segment) ==
    LET matching == SelectSeq(PutTransactionsRoutes,
                              LAMBDA pattern : matches(pattern, segment))
    IN  matching[1]

\* PUT /api/transactions/bulk: { ids, updates } = req.body
PutTransactionsBulkRoute(user, body) ==
    bulkUpdateTransactions(body.ids, body.updates)

\* a PUT request to /api/transactions/<segment>; the handler that is
\* dispatched never calls next()
PutTransactions(user, segment, body) ==
    IF dispatch(segment) = ":id"
    THEN PutTransactionRoute(user, segment, body)
    ELSE PutTransactionsBulkRoute(user, body)

\* storage.deleteTransaction(id)
deleteTransaction(id) ==
    /\ transactions' = SelectSeq(transactions, LAMBDA t : t.id # id)
    /\ resp' = [op |-> "deleteTransaction", userId |-> NULL, at |-> now,
                status |-> 200, body |-> <<>>]
    /\ UNCHANGED <<accounts, nextAccountId, nextTransactionId, now,
                   companies, budgets, requests,
                   users, initialized>>

\* generateRealisticTransactions: one transaction per day drawn, `-${amount}`
\* for an expense
generateRealisticTransactions(accountId, userId, templates, at) ==
    [i \in DOMAIN templates |->
        [accountId |-> accountId,
         userId    |-> userId,
         amount    |-> Dec(templates[i].type = "expense", templates[i].amount),
         category  |-> templates[i].category,
         date      |-> at - (templates[i].daysAgo * TicksPerDay),
         type      |-> templates[i].type]]

\* POST /api/connect-account: the account, with the balance drawn for its
\* type, then its transaction history
ConnectAccountRoute(user, body, balance, templates) ==
    /\ nextAccountId <= MaxAccounts
    /\ (nextTransactionId - 1) + Len(templates) <= MaxTransactions
    /\ LET account == [id       |-> nextAccountId,
                       userId   |-> user,
                       type     |-> body.accountType,
                       balance  |-> balance,
                       isActive |-> TRUE]
           mockTransactions ==
              generateRealisticTransactions(account.id, user, templates, now)
           created == [i \in DOMAIN mockTransactions |->
                          spread(mockTransactions[i],
                                 [id |-> nextTransactionId + (i - 1)])]
       IN  /\ accounts' = Append(accounts, account)
           /\ transactions' = transactions \o created
           /\ nextTransactionId' = nextTransactionId + Len(created)
           /\ resp' = [op |-> "POST /api/connect-account", userId |-> user,
                       at |-> now, status |-> 200,
                       body |-> [account |-> account,
                                 transactionCount |-> Len(mockTransactions)]]
    /\ nextAccountId' = nextAccountId + 1
    /\ UNCHANGED <<now, companies, budgets, requests,
                   users, initialized>>

(* ----------------------- POST /api/auth/register ----------------------- *)
Registration(status, userData, login, body) ==
    [op |-> "POST /api/auth/register", userId |-> NULL, at |-> now,
     status |-> status, username |-> userData.username,
     email |-> userData.email, login |-> login, body |-> body]

\* registrations that have passed the check and have yet to insert
RECURSIVE Registering(_)
Registering(rs) ==
    IF rs = {} THEN 0
    ELSE LET r == CHOOSE x \in rs : TRUE
         IN  (IF requests[r].pc = "register" THEN 1 ELSE 0) + Registering(rs \ {r})

\* the handler up to createUser: storage.getUserByEmail(userData.email) and
\* the 400 answer for a stored email
RegisterGetUserByEmail(r, userData) ==
    /\ requests[r].pc = "idle"
    /\ LET existingUser == SelectSeq(users, LAMBDA u : u.email = userData.email)
       IN  IF existingUser # <<>>
           THEN /\ resp' = Registration(400, userData, <<>>,
                                        [message |-> "User already exists"])
                /\ UNCHANGED requests
           ELSE /\ Len(users) + Registering(Requests) < MaxUsers
                /\ requests' = [requests EXCEPT ![r] =
                                   [pc |-> "register", userData |-> userData]]
                /\ UNCHANGED resp
    /\ UNCHANGED <<accounts, transactions, nextAccountId, nextTransactionId, now,
                   companies, budgets, users, initialized>>

\* faulty variant: the users table has no unique columns
RegisterCreateUser_noConstraint(r) ==
    /\ requests[r].pc = "register"
    /\ LET userData == requests[r].userData
           user == [id |-> Len(users) + 1, username |-> userData.username,
                    email |-> userData.email]
       IN  /\ users' = Append(users, user)
           /\ resp' = Registration(200, userData, <<user.id>>, [user |-> user])
    /\ requests' = [requests EXCEPT ![r] = Idle]
    /\ UNCHANGED <<accounts, transactions, nextAccountId, nextTransactionId, now,
                   companies, budgets, initialized>>

\* storage.createUser(userData) and req.login: the insert throws when the
\* username or the email is stored (both columns are unique), which the
\* handler answers with 400; otherwise the user is stored and logged in
RegisterCreateUser(r) ==
    /\ requests[r].pc = "register"
    /\ LET userData == requests[r].userData
           user == [id |-> Len(users) + 1, username |-> userData.username,
                    email |-> userData.email]
       IN  IF \E i \in DOMAIN users : \/ users[i].username = userData.username
                                      \/ users[i].email = userData.email
           THEN /\ resp' = Registration(400, userData, <<>>,
                                        [message |-> "Registration failed"])
                /\ UNCHANGED users
           ELSE /\ users' = Append(users, user)
                /\ resp' = Registration(200, userData, <<user.id>>, [user |-> user])
    /\ requests' = [requests EXCEPT ![r] = Idle]
    /\ UNCHANGED <<accounts, transactions, nextAccountId, nextTransactionId, now,
                   companies, budgets, initialized>>

(* ------------------------- forecasting page --------------------------- *)
\* calculateRunway of the forecasting page; financialSummary is the data of
\* the summary query, none before it has answered.  newRevenue and newBurn
\* are kept as hundredths: netBurn is hundredths / 100
calculateRunway(financialSummary, revenueGrowth, burnRate) ==
    IF financialSummary = <<>> THEN Num(0)
    ELSE LET currentBalance == financialSummary[1].totalBalance
             currentBurn    == financialSummary[1].monthlyBurn
             currentRevenue == financialSummary[1].monthlyRevenue
             newRevenue     == currentRevenue * (100 + revenueGrowth)
             newBurn        == currentBurn * (100 + burnRate)
             netBurn        == newBurn - newRevenue
         IN  IF netBurn > 0 THEN Div(currentBalance * 100, netBurn)
             ELSE Num(RunwaySentinel)

\* the data the page holds: the summary last answered
financialSummary ==
    IF resp.op = "getFinancialSummary" THEN <<resp.body>>
    ELSE IF resp.op = "calculateRunway" THEN resp.financialSummary
    ELSE <<>>

\* the page computes a scenario's runway
ForecastingPage(scenario) ==
    /\ resp' = [op |-> "calculateRunway", userId |-> resp.userId, at |-> resp.at,
                financialSummary |-> financialSummary,
                scenario |-> scenario,
                body |-> calculateRunway(financialSummary,
                                         scenario.revenueGrowth, scenario.burnRate)]
    /\ UNCHANGED <<accounts, transactions, nextAccountId, nextTransactionId, now,
                   companies, budgets, requests, users, initialized>>

(* ---------------------------- MockStorage ------------------------------ *)
\* this.accounts.push(newAccount)
MockStorage_createAccount(account) ==
    /\ nextAccountId <= MaxAccounts
    /\ LET newAccount == [id       |-> nextAccountId,
                          userId   |-> account.userId,
                          type     |-> account.type,
                          balance  |-> account.balance,
                          isActive |-> account.isActive]
       IN  /\ accounts' = Append(accounts, newAccount)
           /\ resp' = [op |-> "createAccount", userId |-> account.userId,
                       at |-> now, body |-> newAccount]
    /\ nextAccountId' = nextAccountId + 1
    /\ UNCHANGED <<transactions, nextTransactionId, now, companies, budgets, requests,
                   users, initialized>>

\* this.transactions.push(newTransaction); category is
\* transaction.category || null; nothing is looked up
MockStorage_createTransaction(transaction) ==
    /\ nextTransactionId <= MaxTransactions
    /\ LET newTransaction ==
              [id        |-> nextTransactionId,
               accountId |-> transaction.accountId,
               userId    |-> transaction.userId,
               amount    |-> transaction.amount,
               category  |-> IF transaction.category = "" THEN NULL
                             ELSE transaction.category,
               date      |-> transaction.date,
               type      |-> transaction.type]
       IN  /\ transactions' = Append(transactions, newTransaction)
           /\ resp' = [op |-> "createTransaction", userId |-> transaction.userId,
                       at |-> now, body |-> newTransaction]
    /\ nextTransactionId' = nextTransactionId + 1
    /\ UNCHANGED <<accounts, nextAccountId, now, companies, budgets, requests,
                   users, initialized>>

\* findIndex, then this.accounts.splice(index, 1); this.transactions is not
\* touched
MockStorage_deleteAccount(id) ==
    /\ accounts' = SelectSeq(accounts, LAMBDA a : a.id # id)
    /\ resp' = [op |-> "deleteAccount", userId |-> NULL, at |-> now, body |-> <<>>]
    /\ UNCHANGED <<transactions, nextAccountId, nextTransactionId, now,
                   companies, budgets, requests,
                   users, initialized>>

\* this.accounts.filter(a => a.userId === userId)
MockStorage_userAccounts(accts, userId) ==
    SelectSeq(accts, LAMBDA a : a.userId = userId)

\* userAccounts.reduce((sum, account) => sum + parseFloat(account.balance ||
\* "0"), 0); createAccount stores account.balance || "0", never a falsy one
MockStorage_totalBalance(userAccounts) ==
    reduce([i \in DOMAIN userAccounts |-> parseFloat(userAccounts[i].balance)], 0)

\* this.transactions.filter(t => t.userId === userId && new Date(t.date) >=
\* startOfMonth && new Date(t.date) <= endOfMonth)
MockStorage_monthlyTransactions(txs, userId, at) ==
    SelectSeq(txs, LAMBDA t : /\ t.userId = userId
                              /\ t.date >= startOfMonth(at)
                              /\ t.date <= endOfMonth(at))

\* faulty variant: expenses summed with their stored sign
MockStorage_monthlyExpenses_signed(monthly) ==
    LET expenses == SelectSeq(monthly, LAMBDA t : t.type = "expense")
    IN  reduce([i \in DOMAIN expenses |-> parseFloat(expenses[i].amount)], 0)

MockStorage_monthlyExpenses(monthly) ==
    LET expenses == SelectSeq(monthly, LAMBDA t : t.type = "expense")
    IN  reduce([i \in DOMAIN expenses |-> Math_abs(parseFloat(expenses[i].amount))], 0)

MockStorage_monthlyRevenue(monthly) ==
    LET incomes == SelectSeq(monthly, LAMBDA t : t.type = "income")
    IN  reduce([i \in DOMAIN incomes |-> parseFloat(incomes[i].amount)], 0)

MockStorage_financialSummary(accts, txs, at, userId) ==
    LET balance  == MockStorage_totalBalance(MockStorage_userAccounts(accts, userId))
        monthly  == MockStorage_monthlyTransactions(txs, userId, at)
        expenses == MockStorage_monthlyExpenses(monthly)
        revenue  == MockStorage_monthlyRevenue(monthly)
        burn     == expenses - revenue
    IN  [totalBalance   |-> balance,
         monthlyBurn    |-> burn,
         monthlyRevenue |-> revenue,
         runwayMonths   |-> IF burn > 0 THEN Div(balance, burn)
                            ELSE Num(RunwaySentinel)]

\* this.transactions.filter(t => t.userId === userId && t.type === 'expense'
\* && new Date(t.date) >= startOfMonth && new Date(t.date) <= endOfMonth)
MockStorage_expenseTransactions(txs, userId, at) ==
    SelectSeq(txs, LAMBDA t : /\ t.userId = userId
                              /\ t.type = "expense"
                              /\ t.date >= startOfMonth(at)
                              /\ t.date <= endOfMonth(at))

\* the reduce into {}, Object.values and Object.entries are, statement for
\* statement, those of DatabaseStorage.getExpenseBreakdown
MockStorage_expenseBreakdown(txs, at, userId) ==
    LET totals == categoryTotals(MockStorage_expenseTransactions(txs, userId, at))
        total  == totalExpenses(totals)
    IN  [i \in DOMAIN totals |->
            [category   |-> totals[i].category,
             amount     |-> totals[i].amount,
             percentage |-> percentage(totals[i].amount, total)]]

\* MockStorage.getFinancialSummary, without an await between its statements
MockStorage_getFinancialSummary(user) ==
    /\ resp' = [op |-> "getFinancialSummary", userId |-> user, at |-> now,
                body |-> MockStorage_financialSummary(accounts, transactions,
                                                      now, user)]
    /\ UNCHANGED <<accounts, transactions, nextAccountId, nextTransactionId, now,
                   companies, budgets, requests,
                   users, initialized>>

\* MockStorage.getExpenseBreakdown
MockStorage_getExpenseBreakdown(user) ==
    /\ resp' = [op |-> "getExpenseBreakdown", userId |-> user, at |-> now,
                body |-> MockStorage_expenseBreakdown(transactions, now, user)]
    /\ UNCHANGED <<accounts, transactions, nextAccountId, nextTransactionId, now,
                   companies, budgets, requests,
                   users, initialized>>

(* ------------------- MockStorage: demo data on first use --------------- *)
\* amounts of the demo data are in cents: "45000.00" is 4500000
Cents == 100

Template7(desc, category, amount, isRecurring, frequency) ==
    [desc |-> desc, category |-> category, amount |-> amount,
     isRecurring |-> isRecurring, frequency |-> frequency]

\* frequency: 30 days, a month of the model; 0 where the source gives none
transactionTemplates ==
    << Template7("AWS Services", "Engineering", -2847, TRUE, DaysPerMonth),
       Template7("Google Cloud Platform", "Engineering", -1234, TRUE, DaysPerMonth),
       Template7("Office Rent", "Operations", -4500, TRUE, DaysPerMonth),
       Template7("Subscription Revenue - Q3", "Revenue", 45000, TRUE, DaysPerMonth),
       Template7("Custom Integration - BigCorp", "Revenue", 12000, FALSE, 0),
       Template7("Legal Services", "Legal", -5500, FALSE, 0),
       Template7("Team Equipment", "Office & Equipment", -6800, FALSE, 0) >>

\* the loop starts 90 days, three months, back
DemoDays == 3 * DaysPerMonth

\* what Math.random() gives in one run of the loop: the one-off templates
\* generated (< 0.05), the transactions put on the savings account (>= 0.7)
\* and the tenth drawn for the amounts
Draw(oneOff, savings, tenth) == [oneOff |-> oneOff, savings |-> savings, tenth |-> tenth]

shouldGenerate(template, daysAgo, k, draw) ==
    IF template.isRecurring /\ template.frequency # 0
    THEN daysAgo % template.frequency = 0
    ELSE <<daysAgo, k>> \in draw.oneOff

\* (template.amount + (Math.random() - 0.5) * template.amount * 0.1).toFixed(2)
demoAmount(template, draw) ==
    LET cents == template.amount * (Cents - 5 + draw.tenth)
    IN  Dec(cents < 0, Math_abs(cents))

\* for (daysAgo = 90; daysAgo >= 0; daysAgo--) transactionTemplates.forEach(…)
RECURSIVE demoTransactions(_, _, _, _, _, _, _)
demoTransactions(daysAgo, k, draw, demoUser, checkingAccount, savingsAccount, at) ==
    IF daysAgo < 0 THEN <<>>
    ELSE IF k > Len(transactionTemplates)
    THEN demoTransactions(daysAgo - 1, 1, draw, demoUser,
                          checkingAccount, savingsAccount, at)
    ELSE LET template == transactionTemplates[k]
             account == IF <<daysAgo, k>> \in draw.savings
                        THEN savingsAccount ELSE checkingAccount
             pushed == [id        |-> 0,
                        accountId |-> account.id,
                        userId    |-> demoUser.id,
                        amount    |-> demoAmount(template, draw),
                        category  |-> template.category,
                        date      |-> at - daysAgo * TicksPerDay,
                        type      |-> IF template.amount < 0 THEN "expense"
                                      ELSE "income"]
         IN  (IF shouldGenerate(template, daysAgo, k, draw) THEN <<pushed>> ELSE <<>>)
             \o demoTransactions(daysAgo, k + 1, draw, demoUser,
                                 checkingAccount, savingsAccount, at)

\* this.users.find(…) of getUser, getUserByUsername and getUserByEmail: the
\* first match, or none
find(rows, call) ==
    LET found == SelectSeq(rows, LAMBDA u :
                    \/ call.op = "getUser" /\ u.id = call.arg
                    \/ call.op = "getUserByUsername" /\ u.username = call.arg
                    \/ call.op = "getUserByEmail" /\ u.email = call.arg)
    IN  SubSeq(found, 1, IF found = <<>> THEN 0 ELSE 1)

Found(rows, call) ==
    [op |-> call.op, userId |-> NULL, at |-> now, body |-> find(rows, call)]

\* getUser, getUserByUsername, getUserByEmail up to the first await that
\* gives way to other requests: ensureInitialized reads the flag; set, the
\* call answers; clear, initializeDemoData starts and createUser awaits
\* bcrypt.hash
MockStorage_ensureInitialized(r, call) ==
    /\ requests[r].pc = "idle"
    /\ IF initialized
       THEN /\ resp' = Found(users, call)
            /\ UNCHANGED requests
       ELSE /\ requests' = [requests EXCEPT ![r] =
                               [pc |-> "initializeDemoData", call |-> call]]
            /\ UNCHANGED resp
    /\ UNCHANGED <<accounts, transactions, nextAccountId, nextTransactionId, now,
                   companies, budgets, users, initialized>>

\* the rest of initializeDemoData once the hash is there, this.initialized =
\* true and the find of the getter
MockStorage_initializeDemoData(r, draw) ==
    /\ requests[r].pc = "initializeDemoData"
    /\ LET demoUser == [id |-> Len(users) + 1, username |-> "demo",
                        email |-> "demo@startup.com"]
           demoCompany == [id |-> Len(companies) + 1, userId |-> demoUser.id,
                           name |-> "TechFlow Startup"]
           checkingAccount == [id |-> nextAccountId, userId |-> demoUser.id,
                               type |-> "checking",
                               balance |-> Dec(FALSE, 45000 * Cents),
                               isActive |-> TRUE]
           savingsAccount == [id |-> nextAccountId + 1, userId |-> demoUser.id,
                              type |-> "savings",
                              balance |-> Dec(FALSE, 125000 * Cents),
                              isActive |-> TRUE]
           pushed == demoTransactions(DemoDays, 1, draw, demoUser,
                                      checkingAccount, savingsAccount, now)
           engineering == [id |-> Len(budgets) + 1, userId |-> demoUser.id,
                           category |-> "Engineering"]
           marketing == [id |-> Len(budgets) + 2, userId |-> demoUser.id,
                         category |-> "Marketing"]
       IN  /\ users' = Append(users, demoUser)
           /\ companies' = Append(companies, demoCompany)
           /\ accounts' = accounts \o <<checkingAccount, savingsAccount>>
           /\ nextAccountId' = nextAccountId + 2
           /\ transactions' = transactions \o
                 [i \in DOMAIN pushed |->
                     [pushed[i] EXCEPT !.id = nextTransactionId + i - 1]]
           /\ nextTransactionId' = nextTransactionId + Len(pushed)
           /\ budgets' = budgets \o <<engineering, marketing>>
    /\ initialized' = TRUE
    /\ resp' = Found(users', requests[r].call)
    /\ requests' = [requests EXCEPT ![r] = Idle]
    /\ UNCHANGED now

(* --------------------------- request inputs --------------------------- *)
Account(userId, type, balance, isActive) ==
    [userId |-> userId, type |-> type, balance |-> balance, isActive |-> isActive]

Transaction(userId, type, amount, category, date) ==
    [accountId |-> 1, userId |-> userId, type |-> type, amount |-> amount,
     category |-> category, date |-> date]

AccountInputs ==
    { Account("u1", "checking", Dec(FALSE, 5), TRUE),
      Account("u1", "savings", Dec(FALSE, 999), FALSE),
      Account("u2", "credit", Dec(TRUE, 5), TRUE) }

\* amounts, signs and types, dated in the month of StartOfClock, and one
\* expense of the month before
TransactionInputs ==
    { Transaction("u1", "expense", Dec(TRUE, 2), "Engineering", StartOfClock),
      Transaction("u1", "expense", Dec(FALSE, 1), "Engineering", StartOfClock),
      Transaction("u1", "income", Dec(FALSE, 1), "Revenue", StartOfClock),
      Transaction("u1", "income", Dec(TRUE, 2), "Revenue", StartOfClock),
      Transaction("u1", "transfer", Dec(FALSE, 1), "Engineering", StartOfClock),
      Transaction("u1", "expense", Dec(FALSE, 1), "Engineering", DateOf(1, 1) - 1),
      Transaction("u2", "expense", Dec(FALSE, 1), "Marketing", StartOfClock) }

Next ==
    \/ \E account \in AccountInputs : createAccount(account)
    \/ \E transaction \in TransactionInputs : createTransaction(transaction)
    \/ \E user \in Users : FinancialSummaryRoute(user)
    \/ \E user \in Users : ExpenseBreakdownRoute(user)

Spec == Init /\ [][Next]_vars

\* categories
BreakdownAccountInputs == { Account("u1", "checking", Dec(FALSE, 5), TRUE) }

BreakdownInputs ==
    { Transaction("u1", "expense", Dec(TRUE, 2), "Engineering", StartOfClock),
      Transaction("u1", "expense", Dec(FALSE, 1), "Engineering", StartOfClock),
      Transaction("u1", "expense", Dec(FALSE, 1), NULL, StartOfClock),
      Transaction("u1", "expense", Dec(FALSE, 0), "", StartOfClock),
      Transaction("u1", "expense", Dec(FALSE, 1), "constructor", StartOfClock),
      Transaction("u1", "expense", Dec(FALSE, 1), "__proto__", StartOfClock),
      Transaction("u1", "income", Dec(FALSE, 1), "Revenue", StartOfClock),
      Transaction("u2", "expense", Dec(FALSE, 1), "Marketing", StartOfClock) }

NextBreakdown ==
    \/ \E account \in BreakdownAccountInputs : createAccount(account)
    \/ \E transaction \in BreakdownInputs : createTransaction(transaction)
    \/ \E user \in Users : FinancialSummaryRoute(user)
    \/ \E user \in Users : ExpenseBreakdownRoute(user)

SpecBreakdown == Init /\ [][NextBreakdown]_vars

\* dates around the edges of the month of StartOfClock
MonthInputs ==
    { Transaction("u1", "expense", Dec(FALSE, 1), "Engineering", DateOf(1, 1) - 1),
      Transaction("u1", "expense", Dec(FALSE, 1), "Engineering", DateOf(1, 1)),
      Transaction("u1", "expense", Dec(FALSE, 1), "Engineering", DateOf(2, 0)),
      Transaction("u1", "expense", Dec(FALSE, 1), "Engineering", DateOf(2, 1) - 1),
      Transaction("u1", "income", Dec(FALSE, 3), "Revenue", DateOf(2, 1) - 1),
      Transaction("u1", "expense", Dec(FALSE, 1), "Engineering", DateOf(2, 1)) }

NextMonth ==
    \/ \E account \in BreakdownAccountInputs : createAccount(account)
    \/ \E transaction \in MonthInputs : createTransaction(transaction)
    \/ \E user \in Users : FinancialSummaryRoute(user)
    \/ \E user \in Users : ExpenseBreakdownRoute(user)
    \/ Tick

SpecMonth == Init /\ [][NextMonth]_vars

\* syncs in flight together, and an account's deletion
SyncAccountInputs ==
    { Account("u1", "checking", Dec(FALSE, 5), TRUE),
      Account("u2", "checking", Dec(FALSE, 5), TRUE) }

Template(type, amount, category, hoursAgo) ==
    [type |-> type, amount |-> amount, category |-> category, hoursAgo |-> hoursAgo]

CustomerPayment == Template("income", 2, "Revenue", 1)

AwsServices == Template("expense", 1, "Engineering", 1)

SyncInputs == { <<AwsServices>>, <<CustomerPayment, AwsServices>> }

AccountIds == 1..MaxAccounts

NextSync ==
    \/ \E account \in SyncAccountInputs : createAccount(account)
    \/ \E user \in Users, id \in AccountIds, templates \in SyncInputs :
          SyncGetAccount("r1", user, id, templates)
    \/ \E id \in AccountIds, templates \in SyncInputs :
          SyncGetAccount("r2", "u1", id, templates)
    \/ \E r \in Requests : SyncCreateTransaction(r)
    \/ \E r \in Requests : SyncUpdateAccount(r)
    \/ DeleteAccountRoute("u1", 1)

SpecSync == Init /\ [][NextSync]_vars

\* a sync and a summary of the same user in flight together
NextSummary ==
    \/ \E account \in BreakdownAccountInputs : createAccount(account)
    \/ \E id \in AccountIds, templates \in SyncInputs :
          SyncGetAccount("r1", "u1", id, templates)
    \/ SyncCreateTransaction("r1")
    \/ SyncUpdateAccount("r1")
    \/ SummarySelectAccounts("r2", "u1")
    \/ SummarySelectTransactions("r2")

SpecSummary == Init /\ [][NextSummary]_vars

\* MockStorage: accounts and transactions created, accounts deleted
MockInputs ==
    { Transaction("u1", "expense", Dec(FALSE, 1), "Engineering", StartOfClock),
      Transaction("u1", "income", Dec(FALSE, 1), "Revenue", StartOfClock),
      Transaction("u2", "expense", Dec(FALSE, 1), "", StartOfClock) }

NextMock ==
    \/ \E account \in SyncAccountInputs : MockStorage_createAccount(account)
    \/ \E transaction \in MockInputs : MockStorage_createTransaction(transaction)
    \/ \E id \in AccountIds : MockStorage_deleteAccount(id)
    \/ \E user \in Users : MockStorage_getFinancialSummary(user)

SpecMock == Init /\ [][NextMock]_vars

\* the routes that write accounts and transactions, and the storage's bulk
\* update and delete of transactions
AccountBodies ==
    { [userId |-> "u2", type |-> "checking", balance |-> Dec(FALSE, 5),
       isActive |-> TRUE] }

AccountUpdates == { [userId |-> "u1", balance |-> Dec(FALSE, 0)] }

TransactionBodies ==
    { Transaction("u2", "expense", Dec(FALSE, 1), "Engineering", StartOfClock) }

TransactionUpdates == { [amount |-> Dec(TRUE, 2)] }

TransactionIds == 1..MaxTransactions

Realistic(type, amount, category, daysAgo) ==
    [type |-> type, amount |-> amount, category |-> category, daysAgo |-> daysAgo]

ConnectBody == [bankName |-> "Chase", accountType |-> "savings", userId |-> "u2"]

History == <<Realistic("expense", 1, "Operations", 0)>>

NextRoutes ==
    \/ \E user \in Users, body \in AccountBodies : PostAccountsRoute(user, body)
    \/ \E id \in AccountIds, updates \in AccountUpdates :
          PutAccountRoute("u1", id, updates)
    \/ \E id \in AccountIds : DeleteAccountRoute("u1", id)
    \/ \E body \in TransactionBodies : PostTransactionsRoute("u2", body)
    \/ \E id \in TransactionIds, updates \in TransactionUpdates :
          PutTransactionRoute("u1", id, updates)
    \/ bulkUpdateTransactions(<<1, 2>>, [category |-> "Marketing"])
    \/ deleteTransaction(1)
    \/ ConnectAccountRoute("u2", ConnectBody, Dec(FALSE, 9), History)

SpecRoutes == Init /\ [][NextRoutes]_vars

\* the routes that create rows
CompanyBodies == { [name |-> "TechFlow"], [name |-> "TechFlow", userId |-> "u2"] }

BudgetBodies == { [category |-> "Marketing", userId |-> "u1"] }

NextCreate ==
    \/ \E user \in Users, body \in CompanyBodies : PostCompanyRoute(user, body)
    \/ \E user \in Users, body \in BudgetBodies : PostBudgetsRoute(user, body)
    \/ \E user \in Users, body \in AccountBodies : PostAccountsRoute(user, body)
    \/ \E user \in Users, body \in TransactionBodies :
          PostTransactionsRoute(user, body)
    \/ \E user \in Users : ConnectAccountRoute(user, ConnectBody, Dec(FALSE, 9), History)

SpecCreate == Init /\ [][NextCreate]_vars

\* registrations in flight together
UserData(username, email) == [username |-> username, email |-> email]

RegisterInputs ==
    { UserData("demo", "demo@startup.com"),
      UserData("other", "demo@startup.com"),
      UserData("demo", "other@startup.com"),
      UserData("third", "third@startup.com") }

NextRegister ==
    \/ \E r \in Requests, userData \in RegisterInputs :
          RegisterGetUserByEmail(r, userData)
    \/ \E r \in Requests : RegisterCreateUser(r)

SpecRegister == Init /\ [][NextRegister]_vars

\* PUT requests under /api/transactions/
BulkBodies == { [ids |-> <<1, 2>>, updates |-> [category |-> "Marketing"]],
                [ids |-> <<2>>, updates |-> [amount |-> Dec(TRUE, 2)]] }

PutRequests ==
    { [segment |-> id, body |-> updates] :
         id \in TransactionIds, updates \in TransactionUpdates }
    \cup { [segment |-> bulk, body |-> body] : body \in BulkBodies }

NextBulk ==
    \/ \E a \in AccountInputs : createAccount(a)
    \/ \E t \in TransactionInputs : createTransaction(t)
    \/ \E user \in Users, request \in PutRequests :
          PutTransactions(user, request.segment, request.body)

SpecBulk == Init /\ [][NextBulk]_vars

\* calls of the user getters on a fresh MockStorage
Call(op, arg) == [op |-> op, arg |-> arg]

GetterCalls ==
    { Call("getUser", 1), Call("getUser", 2),
      Call("getUserByUsername", "demo"),
      Call("getUserByEmail", "demo@startup.com"),
      Call("getUserByEmail", "other@startup.com") }

Legal == 6

DemoDraws ==
    { Draw({}, {}, 5),
      Draw({<<1, Legal>>}, {<<0, 1>>, <<1, Legal>>}, 0),
      Draw({<<0, 5>>, <<DemoDays, 7>>}, {<<0, 4>>}, 9) }

NextDemo ==
    \/ \E r \in Requests, call \in GetterCalls : MockStorage_ensureInitialized(r, call)
    \/ \E r \in Requests, draw \in DemoDraws : MockStorage_initializeDemoData(r, draw)

SpecDemo == Init /\ [][NextDemo]_vars

\* the analytics of MockStorage over types, categories, users and months
AnalyticsInputs ==
    { Transaction("u1", "expense", Dec(TRUE, 2), "Engineering", StartOfClock),
      Transaction("u1", "expense", Dec(FALSE, 1), "", StartOfClock),
      Transaction("u1", "income", Dec(FALSE, 1), "Revenue", StartOfClock),
      Transaction("u1", "expense", Dec(FALSE, 1), "Marketing", DateOf(2, 1)),
      Transaction("u2", "expense", Dec(FALSE, 1), "Marketing", StartOfClock) }

NextAnalytics ==
    \/ \E account \in BreakdownAccountInputs : MockStorage_createAccount(account)
    \/ \E transaction \in AnalyticsInputs : MockStorage_createTransaction(transaction)
    \/ \E user \in Users : MockStorage_getFinancialSummary(user)
    \/ \E user \in Users : MockStorage_getExpenseBreakdown(user)
    \/ Tick

SpecAnalytics == Init /\ [][NextAnalytics]_vars

\* the forecasting page over summaries with and without revenue
Scenario(name, revenueGrowth, burnRate) ==
    [name |-> name, revenueGrowth |-> revenueGrowth, burnRate |-> burnRate]

Scenarios ==
    { Scenario("Current", 0, 0),
      Scenario("Realistic", 10, -5),
      Scenario("Pessimistic", -5, 10),
      Scenario("Insight", 0, -10) }

ForecastInputs ==
    { Transaction("u1", "expense", Dec(TRUE, 2), "Engineering", StartOfClock),
      Transaction("u1", "expense", Dec(FALSE, 1), "Engineering", StartOfClock),
      Transaction("u1", "income", Dec(FALSE, 1), "Revenue", StartOfClock) }

NextForecast ==
    \/ \E account \in BreakdownAccountInputs : createAccount(account)
    \/ \E transaction \in ForecastInputs : createTransaction(transaction)
    \/ FinancialSummaryRoute("u1")
    \/ \E scenario \in Scenarios : ForecastingPage(scenario)

SpecForecast == Init /\ [][NextForecast]_vars

(* ======================= properties of the code ======================= *)
IsSummary == resp.op = "getFinancialSummary"
IsBreakdown == resp.op = "getExpenseBreakdown"

\* the number a stored decimal literal denotes
ValueOf(decimal) == IF decimal.neg THEN 0 - decimal.mag ELSE decimal.mag

AbsValueOf(decimal) == decimal.mag

\* the sum of f[x] over the x in S
RECURSIVE SumOf(_, _)
SumOf(f, S) ==
    IF S = {} THEN 0
    ELSE LET x == CHOOSE y \in S : TRUE IN f[x] + SumOf(f, S \ {x})

\* the signed and the absolute amounts of the stored transactions, the
\* balances of the stored accounts
Amounts == [i \in DOMAIN transactions |-> ValueOf(transactions[i].amount)]

AbsAmounts == [i \in DOMAIN transactions |-> AbsValueOf(transactions[i].amount)]

Balances == [i \in DOMAIN accounts |-> ValueOf(accounts[i].balance)]

\* r is the quotient n / d
IsQuotient(r, n, d) == d # 0 /\ r[2] > 0 /\ r[1] * d = n * r[2]

IsSentinel(r) == r = <<999, 1>>

\* the accounts of a user, and the user's transactions of the calendar month
\* of `at`, of one type
AccountsOf(user) == {i \in DOMAIN accounts : accounts[i].userId = user}

InMonthOf(user, at, type) ==
    {i \in DOMAIN transactions :
        /\ transactions[i].userId = user
        /\ transactions[i].type = type
        /\ getMonth(transactions[i].date) = getMonth(at)}

InMonthAny(user, at) ==
    {i \in DOMAIN transactions :
        /\ transactions[i].userId = user
        /\ getMonth(transactions[i].date) = getMonth(at)}

\* C1: in every getFinancialSummary result, a monthlyBurn > 0 gives
\* runwayMonths = totalBalance / monthlyBurn, and a monthlyBurn <= 0 (0
\* included) gives exactly the sentinel 999, not the result of a division.
C1_RunwayRule ==
    IsSummary =>
        /\ resp.body.monthlyBurn > 0 =>
               IsQuotient(resp.body.runwayMonths, resp.body.totalBalance,
                          resp.body.monthlyBurn)
        /\ resp.body.monthlyBurn <= 0 => IsSentinel(resp.body.runwayMonths)

C1_Witness ==
    /\ IsSummary
    /\ resp.body.totalBalance = 5
    /\ resp.body.monthlyBurn = 2
    /\ resp.body.runwayMonths = <<5, 2>>

\* C2 as claimed: monthlyBurn > 0 exactly when runwayMonths is the quotient,
\* and monthlyBurn <= 0 exactly when runwayMonths is 999.
C2_BothEquivalences ==
    IsSummary =>
        /\ resp.body.monthlyBurn > 0 <=>
               IsQuotient(resp.body.runwayMonths, resp.body.totalBalance,
                          resp.body.monthlyBurn)
        /\ resp.body.monthlyBurn <= 0 <=> IsSentinel(resp.body.runwayMonths)

\* C2 as amended: the two implications from monthlyBurn always hold; their
\* converses hold whenever totalBalance differs from 999 * monthlyBurn.
C2_EquivalencesOffSentinelQuotient ==
    IsSummary =>
        /\ resp.body.monthlyBurn > 0 =>
               IsQuotient(resp.body.runwayMonths, resp.body.totalBalance,
                          resp.body.monthlyBurn)
        /\ resp.body.monthlyBurn <= 0 => IsSentinel(resp.body.runwayMonths)
        /\ resp.body.totalBalance # 999 * resp.body.monthlyBurn =>
               /\ IsQuotient(resp.body.runwayMonths, resp.body.totalBalance,
                             resp.body.monthlyBurn) => resp.body.monthlyBurn > 0
               /\ IsSentinel(resp.body.runwayMonths) => resp.body.monthlyBurn <= 0

C2_Witness ==
    /\ IsSummary
    /\ resp.body.monthlyBurn < 0
    /\ resp.body.totalBalance = 1004
    /\ IsSentinel(resp.body.runwayMonths)

\* C3: monthlyRevenue is the sum of the signed amounts of the month's income
\* transactions, monthlyExpenses the sum of the absolute amounts of its
\* expense transactions, and monthlyBurn their difference.
C3_RevenueAndBurn ==
    IsSummary =>
        /\ resp.body.monthlyRevenue =
               SumOf(Amounts,
                     InMonthOf(resp.userId, resp.at, "income"))
        /\ resp.body.monthlyBurn =
               SumOf(AbsAmounts,
                     InMonthOf(resp.userId, resp.at, "expense"))
               - resp.body.monthlyRevenue

C3_Witness ==
    /\ IsSummary
    /\ \E i \in InMonthOf(resp.userId, resp.at, "expense") : transactions[i].amount.neg
    /\ \E i \in InMonthOf(resp.userId, resp.at, "expense") : ~transactions[i].amount.neg
    /\ \E i \in InMonthOf(resp.userId, resp.at, "income") : transactions[i].amount.neg
    /\ resp.body.monthlyRevenue = 0 - 2
    /\ resp.body.monthlyBurn = 5

\* C4: totalBalance is the sum of the balances of all the user's accounts,
\* the inactive ones and those of every type included.
C4_TotalBalance ==
    IsSummary =>
        resp.body.totalBalance =
            SumOf(Balances, AccountsOf(resp.userId))

C4_Witness ==
    /\ IsSummary
    /\ \E i \in AccountsOf(resp.userId) : ~accounts[i].isActive
    /\ \E i \in AccountsOf(resp.userId) : accounts[i].isActive
    /\ resp.body.totalBalance = 1004

\* C5 as claimed: both operations take into account exactly the user's
\* transactions dated in the current calendar month, from the first instant of
\* its first day through the end of its last day.
C5_WholeCalendarMonth ==
    /\ IsSummary =>
        /\ resp.body.monthlyRevenue =
               SumOf(Amounts,
                     InMonthOf(resp.userId, resp.at, "income"))
        /\ resp.body.monthlyBurn + resp.body.monthlyRevenue =
               SumOf(AbsAmounts,
                     InMonthOf(resp.userId, resp.at, "expense"))
    /\ IsBreakdown =>
        /\ \A k \in DOMAIN resp.body : resp.body[k].amount.t = "number"
        /\ SumOf([k \in DOMAIN resp.body |-> resp.body[k].amount.n], DOMAIN resp.body) =
               SumOf(AbsAmounts,
                     InMonthOf(resp.userId, resp.at, "expense"))

\* C6: no data gives zeros: no accounts gives totalBalance 0; no transactions
\* in the current month gives monthlyBurn 0, monthlyRevenue 0 and runwayMonths
\* 999; no expense transactions this month gives an empty breakdown.
C6_NoDataGivesZeros ==
    /\ (IsSummary /\ AccountsOf(resp.userId) = {}) => resp.body.totalBalance = 0
    /\ (IsSummary /\ InMonthAny(resp.userId, resp.at) = {}) =>
           /\ resp.body.monthlyBurn = 0
           /\ resp.body.monthlyRevenue = 0
           /\ IsSentinel(resp.body.runwayMonths)
    /\ (IsBreakdown /\ InMonthOf(resp.userId, resp.at, "expense") = {}) =>
           resp.body = <<>>

C6_Witness ==
    /\ IsSummary
    /\ accounts # <<>>
    /\ transactions # <<>>
    /\ AccountsOf(resp.userId) = {}
    /\ InMonthAny(resp.userId, resp.at) = {}
    /\ \E i \in DOMAIN transactions : transactions[i].userId = resp.userId
    /\ resp.body = [totalBalance |-> 0, monthlyBurn |-> 0, monthlyRevenue |-> 0,
                    runwayMonths |-> <<999, 1>>]

\* the sum of two fractions
RatPlus(a, b) == Div((a[1] * b[2]) + (b[1] * a[2]), a[2] * b[2])

RECURSIVE SumOfPercentages(_)
SumOfPercentages(entries) ==
    IF entries = <<>> THEN <<0, 1>>
    ELSE RatPlus(Head(entries).percentage, SumOfPercentages(Tail(entries)))

AmountsAreNumbers(entries) ==
    \A k \in DOMAIN entries : entries[k].amount.t = "number"

SumOfAmounts(entries) ==
    SumOf([k \in DOMAIN entries |-> entries[k].amount.n], DOMAIN entries)

LabelOf(transaction) ==
    IF transaction.category = NULL \/ transaction.category = ""
    THEN "Uncategorized" ELSE transaction.category

\* C8 as claimed: every current-month expense of the user is counted in
\* exactly one entry, one without a category under "Uncategorized", so the
\* entries' amounts sum to the sum of the absolute amounts of those expenses.
C8_EveryExpenseCounted ==
    IsBreakdown =>
        LET expenses == InMonthOf(resp.userId, resp.at, "expense")
        IN  /\ \A i \in expenses :
                   Cardinality({k \in DOMAIN resp.body :
                       resp.body[k].category = LabelOf(transactions[i])}) = 1
            /\ AmountsAreNumbers(resp.body)
            /\ SumOfAmounts(resp.body) =
                   SumOf(AbsAmounts, expenses)

\* C9 as claimed: one entry per distinct label among the user's current-month
\* expenses, its amount the sum of their absolute amounts and its percentage
\* that amount's share of the total, times 100.
C9_OneEntryPerCategory ==
    IsBreakdown =>
        LET expenses == InMonthOf(resp.userId, resp.at, "expense")
            labels   == {LabelOf(transactions[i]) : i \in expenses}
            total    == SumOf(AbsAmounts, expenses)
            group(c) == {i \in expenses : LabelOf(transactions[i]) = c}
        IN  /\ {resp.body[k].category : k \in DOMAIN resp.body} = labels
            /\ Len(resp.body) = Cardinality(labels)
            /\ \A k \in DOMAIN resp.body :
                   /\ resp.body[k].amount =
                          Number(SumOf(AbsAmounts,
                                       group(resp.body[k].category)))
                   /\ total > 0 =>
                          IsQuotient(resp.body[k].percentage,
                                     resp.body[k].amount.n * 100, total)

\* The statements of C8 and C9 for the breakdowns in which no expense carries
\* a category that Object.prototype defines.
OrdinaryCategories ==
    \A i \in InMonthOf(resp.userId, resp.at, "expense") :
        transactions[i].category \notin ObjectPrototype

C8_HoldsForOrdinaryCategories == OrdinaryCategories => C8_EveryExpenseCounted

C9_HoldsForOrdinaryCategories == OrdinaryCategories => C9_OneEntryPerCategory

\* the records of one user
OwnedBy(records, user) == SelectSeq(records, LAMBDA r : r.userId = user)

\* C10: the results for a user are those computed from the user's own
\* accounts and transactions alone, whatever other users' records are stored.
C10_ScopedToUser ==
    /\ IsSummary =>
           resp.body = getFinancialSummary(OwnedBy(accounts, resp.userId),
                                           OwnedBy(transactions, resp.userId),
                                           resp.at, resp.userId)
    /\ IsBreakdown =>
           resp.body = getExpenseBreakdown(OwnedBy(transactions, resp.userId),
                                           resp.at, resp.userId)

C10_Witness ==
    /\ IsSummary
    /\ \E i \in DOMAIN accounts : accounts[i].userId # resp.userId
    /\ \E i \in DOMAIN transactions : transactions[i].userId # resp.userId
    /\ resp.body.totalBalance = 5
    /\ resp.body.monthlyBurn = 3

(* ------------------------- C11: read-only ----------------------------- *)
\* a step of one of the two analytics handlers: it answers, the clock and
\* the handlers in flight stay as they are
AnalyticsStep ==
    /\ resp'.op \in {"getFinancialSummary", "getExpenseBreakdown"}
    /\ now' = now
    /\ requests' = requests

\* the call before this one was the same call, and nothing was written in
\* between (every write answers, and so replaces resp)
SameCallAgain == resp.op = resp'.op /\ resp.userId = resp'.userId

\* C11 (as stated): the two analytics leave every stored collection as it
\* was, order included, and a call repeated with no mutation in between
\* returns the same result.
C11_ReadOnlyAndRepeatable ==
    [][AnalyticsStep =>
        /\ UNCHANGED <<accounts, transactions, companies, budgets>>
        /\ SameCallAgain => resp'.body = resp.body]_vars

\* C11 (amended): the two analytics leave every stored collection as it
\* was, order included, and a call repeated in the same calendar month with
\* no mutation in between returns the same result.
C11_ReadOnlyAndRepeatableInMonth ==
    [][AnalyticsStep =>
        /\ UNCHANGED <<accounts, transactions, companies, budgets>>
        /\ (SameCallAgain /\ getMonth(resp.at) = getMonth(resp'.at))
              => resp'.body = resp.body]_vars

\* a summary over stored expenses, answered later in the month the clock
\* started in
C11_Witness ==
    /\ IsSummary
    /\ resp.at > StartOfClock
    /\ getMonth(resp.at) = getMonth(StartOfClock)
    /\ Len(transactions) >= 2
    /\ resp.body.monthlyBurn > 0

(* -------------------- C15: other transaction types -------------------- *)
\* the stored transactions typed income or expense
IncomeAndExpense ==
    SelectSeq(transactions, LAMBDA t : t.type \in {"income", "expense"})

\* C15: a transaction of type 'transfer', or of any type other than income
\* and expense, contributes to no field of the summary and to no entry of
\* the breakdown: both results are what they are with every such
\* transaction removed.
C15_OtherTypesIgnored ==
    /\ IsSummary =>
          resp.body = getFinancialSummary(accounts, IncomeAndExpense,
                                          resp.at, resp.userId)
    /\ IsBreakdown =>
          resp.body = getExpenseBreakdown(IncomeAndExpense, resp.at, resp.userId)

\* a summary with burn of a user who has a transfer stored in the month
C15_Witness ==
    /\ IsSummary
    /\ resp.body.monthlyBurn > 0
    /\ \E i \in DOMAIN transactions :
          /\ transactions[i].type = "transfer"
          /\ transactions[i].userId = resp.userId
          /\ getMonth(transactions[i].date) = getMonth(resp.at)

(* ---------------------- C12: summary during a sync -------------------- *)
\* handler r answers in this step
Answers(r, kind) == requests[r].pc = kind /\ requests'[r].pc = "idle"

IdsOf(rows) == { rows[i].id : i \in DOMAIN rows }

\* the summary of the store as it was before sync handler s wrote anything:
\* the balance it read, and none of the transactions it added
SummaryBefore(s, user) ==
    getFinancialSummary(
        updateAccount(accounts, s.accountId, [balance |-> s.account.balance]),
        SelectSeq(transactions, LAMBDA t : t.id \notin IdsOf(s.addedTransactions)),
        now, user)

\* the summary of the store as it is once sync handler s has finished: every
\* transaction it drew, and the balance it then writes
SummaryAfter(s, user) ==
    getFinancialSummary(
        updateAccount(accounts, s.accountId,
            [balance |-> newBalance(s.account,
                            balanceChange(s.addedTransactions \o s.newTransactions))]),
        transactions \o s.newTransactions,
        now, user)

\* C12: a summary answered while a sync of the same user is in flight (and
\* no account was created since the summary began) is the summary of the
\* store before that sync or of the store after it, never of a mixture.
C12_SummaryOfOneState ==
    [][\A r \in Requests, s \in Requests :
          (/\ Answers(r, "summary")
           /\ requests[s].pc = "sync"
           /\ requests[s].user = requests[r].user
           /\ requests[r].accountsData = accountsData(accounts, requests[r].user))
          => resp'.body \in { SummaryBefore(requests[s], requests[r].user),
                              SummaryAfter(requests[s], requests[r].user) }]_vars

(* ------------------------- C16: what a sync writes -------------------- *)
Indices(rows, type) == { i \in DOMAIN rows : rows[i].type = type }

OtherIndices(rows, type) == { i \in DOMAIN rows : rows[i].type # type }

\* +amount for every income, -|amount| for every other transaction
ExpectedChange(rows) ==
    SumOf([i \in DOMAIN rows |-> ValueOf(rows[i].amount)], Indices(rows, "income"))
      - SumOf([i \in DOMAIN rows |-> AbsValueOf(rows[i].amount)],
              OtherIndices(rows, "income"))

StoredBalances(accts, id) ==
    { ValueOf(accts[i].balance) : i \in { j \in DOMAIN accts : accts[j].id = id } }

\* handler r makes one turn of its loop in this step
Turns(r) ==
    /\ requests[r].pc = "sync"
    /\ requests'[r].pc = "sync"
    /\ Len(requests'[r].newTransactions) < Len(requests[r].newTransactions)

\* C16: a sync that answers leaves the account (if it is still stored) with
\* the balance read at the start plus balanceChange, the sum over the
\* transactions added of +amount for income and -|amount| otherwise; its
\* answer carries the number added, that sum and the stored balance; and a
\* transaction whose creation fails is neither stored nor added.
C16_SyncBalance ==
    [][\A r \in Requests :
          /\ Answers(r, "sync") =>
                LET added  == requests[r].addedTransactions
                    change == ExpectedChange(added)
                    start  == ValueOf(requests[r].account.balance)
                IN  /\ resp'.op = "sync" /\ resp'.status = 200
                    /\ resp'.body.newTransactions = Len(added)
                    /\ resp'.body.balanceChange = change
                    /\ resp'.body.newBalance = start + change
                    /\ StoredBalances(accounts', requests[r].accountId)
                          \subseteq {start + change}
          /\ Turns(r) =>
                LET tx == Head(requests[r].newTransactions)
                IN  IF tx.accountId \in IdsOf(accounts)
                    THEN /\ Len(transactions') = Len(transactions) + 1
                         /\ requests'[r].addedTransactions =
                               Append(requests[r].addedTransactions,
                                      transactions'[Len(transactions')])
                    ELSE /\ transactions' = transactions
                         /\ requests'[r].addedTransactions =
                               requests[r].addedTransactions]_vars

\* a sync answered after adding an income of 2 and an expense of 1 to an
\* account of balance 5
C16_Witness ==
    /\ resp.op = "sync"
    /\ resp.status = 200
    /\ resp.body.newTransactions = 2
    /\ resp.body.balanceChange = 1
    /\ StoredBalances(accounts, resp.accountId) = {6}

(* --------------------------- C17: lost updates ------------------------ *)
OpeningBalance(account) ==
    ValueOf((CHOOSE a \in SyncAccountInputs : a.userId = account.userId).balance)

\* C17: when no sync of an account is in flight, its balance is the balance
\* it was created with plus the balanceChange of every sync made of it, that
\* is plus the signed sum of the transactions the syncs stored for it.
C17_NoLostUpdate ==
    \A i \in DOMAIN accounts :
        (\A r \in Requests :
            requests[r].pc = "sync" => requests[r].accountId # accounts[i].id)
        => ValueOf(accounts[i].balance) =
              OpeningBalance(accounts[i])
                + ExpectedChange(SelectSeq(transactions,
                                    LAMBDA t : t.accountId = accounts[i].id))

(* ------------------------ C18: sync of no account --------------------- *)
\* the sync handler answers 404 in this step
AnswersNotFound ==
    /\ resp'.op = "sync"
    /\ resp'.status = 404
    /\ requests' = requests
    /\ nextAccountId' = nextAccountId

\* C18: a sync is carried out only for a stored account of the user who
\* asks; the 404 answer is given for an account that is not stored or is
\* another user's, says 'Account not found', and changes nothing.
C18_NotFoundChangesNothing ==
    [][/\ \A r \in Requests :
            (requests[r].pc = "idle" /\ requests'[r].pc = "sync") =>
                \E i \in DOMAIN accounts :
                    /\ accounts[i].id = requests'[r].accountId
                    /\ accounts[i].userId = requests'[r].user
       /\ AnswersNotFound =>
            /\ UNCHANGED <<accounts, transactions, companies, budgets,
                           nextTransactionId>>
            /\ resp'.body.message = "Account not found"
            /\ \A i \in DOMAIN accounts :
                  accounts[i].id = resp'.accountId =>
                      accounts[i].userId # resp'.userId]_vars

\* a 404 for an account that is stored and is another user's
C18_Witness ==
    /\ resp.op = "sync"
    /\ resp.status = 404
    /\ \E i \in DOMAIN accounts :
          accounts[i].id = resp.accountId /\ accounts[i].userId # resp.userId

(* ----------------------- C13: references resolve ---------------------- *)
AccountsWithId(id) == { j \in DOMAIN accounts : accounts[j].id = id }

\* the stored transactions whose account is stored
OfStoredAccounts ==
    SelectSeq(transactions, LAMBDA t : AccountsWithId(t.accountId) # {})

\* C13: every stored transaction references exactly one stored account and
\* one user, every stored account one user; a deleted account's
\* transactions are deleted with it, so a summary counts only transactions
\* of stored accounts.
C13_ReferencesResolve ==
    /\ \A i \in DOMAIN transactions :
          /\ Cardinality(AccountsWithId(transactions[i].accountId)) = 1
          /\ transactions[i].userId \in Users
    /\ \A j \in DOMAIN accounts : accounts[j].userId \in Users
    /\ IsSummary =>
          resp.body = getFinancialSummary(accounts, OfStoredAccounts,
                                          resp.at, resp.userId)

(* ------------------ C14: transactions leave balances ------------------ *)
TransactionOps ==
    { "POST /api/transactions", "PUT /api/transactions/:id",
      "bulkUpdateTransactions", "deleteTransaction" }

\* the sum of the balances of the accounts of a user among accts
BalanceOf(accts, user) ==
    SumOf([i \in DOMAIN accts |-> ValueOf(accts[i].balance)],
          { i \in DOMAIN accts : accts[i].userId = user })

\* C14: creating, updating, bulk-updating or deleting a transaction leaves
\* every account as it was, so every user's total balance is the same before
\* and after; and a step that stores new transactions without being a sync
\* leaves every account that existed before as it was.
C14_BalancesUntouched ==
    [][/\ resp'.op \in TransactionOps =>
            /\ accounts' = accounts
            /\ \A user \in Users :
                  BalanceOf(accounts', user) = BalanceOf(accounts, user)
       /\ nextTransactionId' > nextTransactionId =>
            \A i \in DOMAIN accounts :
                i \in DOMAIN accounts' /\ accounts'[i] = accounts[i]]_vars

\* a transaction's amount was rewritten to -2 and its account still holds 5
C14_Witness ==
    /\ resp.op = "PUT /api/transactions/:id"
    /\ resp.status = 200
    /\ resp.body # <<>>
    /\ resp.body[1].amount = Dec(TRUE, 2)
    /\ StoredBalances(accounts, resp.body[1].accountId) = {5}

(* ----------------------- C19: owner at creation ----------------------- *)
CreateOps ==
    { "POST /api/company", "POST /api/accounts", "POST /api/transactions",
      "POST /api/budgets", "POST /api/connect-account" }

\* the rows of after whose id no row of before has
NewRows(before, after) ==
    { after[i] : i \in { j \in DOMAIN after : after[j].id \notin IdsOf(before) } }

\* C19: every company, account, transaction and budget a creating route
\* stores belongs to the authenticated user, whatever userId the body
\* carries.
C19_OwnerIsRequester ==
    [][resp'.op \in CreateOps =>
          \A row \in NewRows(companies, companies')
                       \cup NewRows(accounts, accounts')
                       \cup NewRows(transactions, transactions')
                       \cup NewRows(budgets, budgets') :
              row.userId = resp'.userId]_vars

\* u1 posted a transaction whose body names u2, and it is stored as u1's
C19_Witness ==
    /\ resp.op = "POST /api/transactions"
    /\ resp.status = 200
    /\ resp.userId = "u1"
    /\ \E i \in DOMAIN transactions :
          transactions[i].id = resp.body.id /\ transactions[i].userId = "u1"

(* --------------------- C20: other users' rows ------------------------- *)
WriteOps ==
    { "PUT /api/accounts/:id", "DELETE /api/accounts/:id",
      "PUT /api/transactions/:id" }

\* every row of before that is not the user's is a row of after
OthersKept(before, after, user) ==
    \A i \in DOMAIN before :
        before[i].userId # user => \E j \in DOMAIN after : after[j] = before[i]

\* C20: a PUT or DELETE of an account or a PUT of a transaction by one user
\* leaves every account and transaction of every other user stored and
\* unchanged, and so leaves every other user's summary and breakdown as
\* they were.
C20_OthersRowsUntouched ==
    [][resp'.op \in WriteOps =>
          /\ OthersKept(accounts, accounts', resp'.userId)
          /\ OthersKept(transactions, transactions', resp'.userId)
          /\ \A user \in Users \ {resp'.userId} :
                /\ getFinancialSummary(accounts', transactions', now, user)
                      = getFinancialSummary(accounts, transactions, now, user)
                /\ getExpenseBreakdown(transactions', now, user)
                      = getExpenseBreakdown(transactions, now, user)]_vars

(* ------------------------ C21: unique emails -------------------------- *)
EmailsOf(rows) == { rows[i].email : i \in DOMAIN rows }

\* C21: no two stored users have the same email, whatever registrations ran
\* and however they interleaved; a registration that answers while its
\* email is stored answers 400, stores no user and logs nobody in; and a
\* user is stored only by a registration that answers 200 and logs that
\* user in.
C21_EmailsUnique ==
    [][/\ \A i, j \in DOMAIN users' :
             users'[i].email = users'[j].email => i = j
       /\ \A r \in Requests :
             (Answers(r, "register")
                /\ requests[r].userData.email \in EmailsOf(users))
             => /\ resp'.status = 400
                /\ users' = users
                /\ resp'.login = <<>>
       /\ users' # users =>
             /\ resp'.status = 200
             /\ resp'.email \notin EmailsOf(users)
             /\ resp'.login = <<users'[Len(users')].id>>]_vars

\* a registration that passed the check and was refused by the insert: its
\* email is stored under another username
C21_Witness ==
    /\ resp.op = "POST /api/auth/register"
    /\ resp.status = 400
    /\ resp.body.message = "Registration failed"
    /\ \E i \in DOMAIN users :
          users[i].email = resp.email /\ users[i].username # resp.username

(* ------------------------- C22: bulk update ---------------------------- *)
Listed(ids, id) == \E k \in DOMAIN ids : ids[k] = id

\* C22: a PUT /api/transactions/bulk with body {ids, updates} applies updates
\* to every transaction whose id is in ids, changes no other transaction and
\* answers with the list of the updated transactions.
C22_BulkUpdates ==
    [][\A user \in Users, body \in BulkBodies :
          PutTransactions(user, bulk, body)
          => /\ transactions' =
                   [i \in DOMAIN transactions |->
                       IF Listed(body.ids, transactions[i].id)
                       THEN set(transactions[i], body.updates)
                       ELSE transactions[i]]
             /\ resp'.status = 200
             /\ resp'.body = SelectSeq(transactions',
                                LAMBDA t : Listed(body.ids, t.id))]_vars

(* ---------------------- C23: demo data once --------------------------- *)
DemoUsers == SelectSeq(users, LAMBDA u : u.email = "demo@startup.com")

\* C23: however the calls of getUser, getUserByUsername and getUserByEmail
\* on a fresh MockStorage interleave, the demo data is created at most once:
\* there is never more than one user with email demo@startup.com, and an
\* initialized storage holds exactly one such user, one demo company, two
\* demo accounts and two demo budgets.
C23_DemoDataOnce ==
    /\ Len(DemoUsers) <= 1
    /\ initialized =>
          /\ Len(DemoUsers) = 1
          /\ Len(companies) = 1
          /\ Len(accounts) = 2
          /\ Len(budgets) = 2

(* ------------------ C24: the two storages agree ----------------------- *)
EntriesOf(breakdown) == { breakdown[i] : i \in DOMAIN breakdown }

\* C24: over the same accounts, transactions and current date, the summary
\* MockStorage answers has the totalBalance, monthlyBurn, monthlyRevenue and
\* runwayMonths of DatabaseStorage's, and the breakdown MockStorage answers
\* has the same set of {category, amount, percentage} entries as
\* DatabaseStorage's.
C24_StoragesAgree ==
    /\ IsSummary =>
          LET database == getFinancialSummary(accounts, transactions,
                                              resp.at, resp.userId)
          IN  /\ resp.body.totalBalance = database.totalBalance
              /\ resp.body.monthlyBurn = database.monthlyBurn
              /\ resp.body.monthlyRevenue = database.monthlyRevenue
              /\ resp.body.runwayMonths = database.runwayMonths
    /\ IsBreakdown =>
          EntriesOf(resp.body) =
             EntriesOf(getExpenseBreakdown(transactions, resp.at, resp.userId))

\* a summary of MockStorage with an expense stored negative, an income and
\* another user's expense: burn 2 - 1 on a balance of 5
C24_Witness ==
    /\ IsSummary
    /\ resp.userId = "u1"
    /\ resp.body.monthlyRevenue = 1
    /\ resp.body.monthlyBurn = 1
    /\ resp.body.runwayMonths = Div(5, 1)
    /\ \E i \in DOMAIN transactions : transactions[i].userId = "u2"

(* --------------- C25: breakdown total = monthly expenses -------------- *)
\* C25 as claimed: the amounts of the entries of a breakdown sum to the
\* monthly expenses of the summary of the same user over the same store and
\* date, which is its monthlyBurn + monthlyRevenue.
C25_BreakdownSumsToExpenses ==
    IsBreakdown =>
        LET summary == getFinancialSummary(accounts, transactions,
                                           resp.at, resp.userId)
        IN  /\ AmountsAreNumbers(resp.body)
            /\ SumOfAmounts(resp.body) =
                   summary.monthlyBurn + summary.monthlyRevenue

\* The statement of C25 for the breakdowns in which no expense carries a
\* category that Object.prototype defines.
C25_HoldsForOrdinaryCategories == OrdinaryCategories => C25_BreakdownSumsToExpenses

(* ------------------- C26: the no-change scenario ---------------------- *)
IsRunway == resp.op = "calculateRunway" /\ resp.financialSummary # <<>>

\* the net burn of the scenario, in hundredths
NetBurnOf(summary, scenario) ==
    summary.monthlyBurn * (100 + scenario.burnRate)
    - summary.monthlyRevenue * (100 + scenario.revenueGrowth)

\* C26 as claimed: calculateRunway with revenueGrowth 0 and burnRate 0
\* returns the runwayMonths of the summary it is computed from, and
\* calculateRunway returns 999 exactly when the scenario's net burn is not
\* positive.
C26_NoChangeIsCurrent ==
    IsRunway =>
        /\ (resp.scenario.revenueGrowth = 0 /\ resp.scenario.burnRate = 0)
              => resp.body = resp.financialSummary[1].runwayMonths
        /\ resp.body = Num(RunwaySentinel)
              <=> NetBurnOf(resp.financialSummary[1], resp.scenario) <= 0

\* The statement of C26 for the summaries without revenue.
C26_HoldsWithoutRevenue ==
    (IsRunway /\ resp.financialSummary[1].monthlyRevenue = 0)
        => C26_NoChangeIsCurrent

(* --------------------- C27: runway is not negative -------------------- *)
\* C27 as claimed: the runwayMonths of a summary is never negative: it is
\* 999 or a number of months >= 0.
C27_RunwayNeverNegative ==
    IsSummary =>
        \/ IsSentinel(resp.body.runwayMonths)
        \/ resp.body.runwayMonths[2] > 0 /\ resp.body.runwayMonths[1] >= 0

\* The statement of C27 for the summaries whose totalBalance is not negative.
C27_HoldsForBalancesFromZero ==
    (IsSummary /\ resp.body.totalBalance >= 0) => C27_RunwayNeverNegative

====
